---- MODULE Spec2Model ----
(***************************************************************************)
(* GifFavCache (src/index.tsx): a two-tier cache of favourited GIFs.       *)
(*                                                                         *)
(*   Persistent Store  IndexedDB object store "gifs", keyPath "url"       *)
(*   Memory Index      MEMORY_CACHE (url -> blob: object URL) and          *)
(*                     REVERSE_CACHE (object URL -> url)                   *)
(*                                                                         *)
(* Granularity.  JavaScript runs one task at a time; an async function     *)
(* runs without interruption from one `await` to the next.  Every action   *)
(* below is one such run: it starts when the awaited operation settles,    *)
(* applies that operation's effect on the store (the transaction's         *)
(* outcome), and then runs the code that follows up to the next `await`    *)
(* of a store request or a fetch.  An `await` of a promise that the same   *)
(* run settles (pruneCache returning to cacheGif) is not a boundary: its   *)
(* continuation runs before any other task.  Anything may be scheduled     *)
(* between two actions of the same call.                                   *)
(*                                                                         *)
(* Strings.  A URL is a sequence of tokens, so that startsWith, includes   *)
(* and the "https:" + url concatenation are computed, not assumed.         *)
(***************************************************************************)
EXTENDS Integers, Sequences, FiniteSets, TLC

\* ------------------------------------------------------------------ bounds
MaxTasks == 2      \* cacheGif calls in flight at once
MaxClock == 2      \* largest value Date.now() takes
MaxUi    == 1      \* inspector calls (deleteEntry, clearCache) in flight at once
MaxObj   == 2      \* object URLs in existence or still referenced at once
MaxStale == 1      \* handler pairs left subscribed by repeated start() calls
MaxTimers == 2     \* interval timers in existence at once
MaxTimeouts == 1   \* startup timeouts pending at once

\* ------------------------------------------------------------------ constants
\* const BATCH = 4 (preloadAllFavorites)
BATCH == 4
\* maxCacheEntries: default: 200
DefaultMaxCacheEntries == 200
\* the values of maxCacheEntries examined besides the default
SmallMaxCacheEntries == {1, 2}

\* ------------------------------------------------------------------ URLs
UA == <<"https:", "//", "a.gif">>
UB == <<"https:", "//", "b.gif">>
UC == <<"https:", "//", "c.gif">>
UD == <<"https:", "//", "d.gif">>
UE == <<"https:", "//", "e.gif">>
\* protocol-relative spelling of UA
PA == <<"//", "a.gif">>
Empty == <<>>
Proxy1 == <<"https:", "//", "images-ext-1.discordapp.net", "/x.gif">>
Proxy2 == <<"//", "images-ext-2.discordapp.net", "/x.gif">>
\* the object URLs createObjectURL can hand out
ObjIds == <<"o1", "o2", "o3", "o4", "o5", "o6", "o7", "o8">>
Handle(n) == <<"blob:", ObjIds[n]>>
Handles == {Handle(n) : n \in 1..Len(ObjIds)}
\* what a caller may pass: remote URLs, the empty string, a local handle, proxy URLs
Inputs == {UA, PA, UB, UC, Empty, Handle(1), Proxy1, Proxy2}
\* IndexedDB key order of the cacheable keys (getAll returns records in key order)
KeyOrder == <<UA, UB, UC, UD, UE>>
Keys == {KeyOrder[i] : i \in 1..Len(KeyOrder)}
Null == <<"null">>

StartsWith(url, tok) == Len(url) >= 1 /\ url[1] = tok
Includes(url, tok) == \E i \in 1..Len(url) : url[i] = tok

isCacheableNoProxy(url) == ~(url = Empty \/ StartsWith(url, "blob:"))
isCacheable(url) ==
    /\ ~(url = Empty \/ StartsWith(url, "blob:"))
    /\ ~(Includes(url, "images-ext-1.discordapp.net")
           \/ Includes(url, "images-ext-2.discordapp.net"))

\* const fetchUrl = url.startsWith("//") ? "https:" + url : url
Normalize(url) == IF StartsWith(url, "//") THEN <<"https:">> \o url ELSE url

\* ------------------------------------------------------------------ state
VARIABLES
    db,             \* the IndexedDB store: key -> cachedAt (the blob is opaque)
    now,            \* Date.now()
    maxCacheEntries,\* settings.store.maxCacheEntries
    MEMORY_CACHE,   \* url -> object URL
    REVERSE_CACHE,  \* object URL -> url
    live,           \* object URLs created and not yet revoked
    tasks,          \* the cacheGif calls: slot -> activation record
    pendingDel,     \* urls with a deleteEntry call awaiting dbDelete
    clearing,       \* a clearCache call is awaiting dbClearAll
    favorites,      \* the src values of UserSettingsProtoStore's favoriteGifs
    run,            \* the preloadAllFavorites call and what its cacheGif calls gave
    started,        \* start() has run and stop() has not since: the handlers
                    \* held in _onFavAdded / _onProtoUpdate are subscribed
    stale,          \* handler pairs subscribed by an earlier start() and replaced
                    \* in _onFavAdded / _onProtoUpdate by a later one
    refreshIntervalMinutes, \* settings.store.refreshIntervalMinutes
    preloadOnStartup,       \* settings.store.preloadOnStartup
    refreshTimer,   \* the module variable refreshTimer (NoTimer: null)
    timers,         \* the interval timers set and not cleared
    timeouts,       \* startup timeouts (setTimeout 5000) set and not yet fired
    ev              \* what the last step returned to its caller (observation)

\* the plugin's lifecycle state
lifeVars == <<started, stale, refreshIntervalMinutes, preloadOnStartup,
              refreshTimer, timers, timeouts>>
vars == <<db, now, maxCacheEntries, MEMORY_CACHE, REVERSE_CACHE, live,
          tasks, pendingDel, clearing, favorites, run, lifeVars, ev>>

\* activation records: enough for the calls of one batch beside the others
Slots == 1..(MaxTasks + BATCH)
EmptyMap == [x \in {} |-> Null]
Drop(f, S) == [x \in DOMAIN f \ S |-> f[x]]
Put(f, k, v) == [x \in DOMAIN f \cup {k} |-> IF x = k THEN v ELSE f[x]]
Range(f) == {f[x] : x \in DOMAIN f}

\* owner: the index in the preload's list the call was made for (0: another caller)
\* put: how the call's store write ended ("none": no write made)
IdleTask == [pc |-> "idle", in |-> Empty, url |-> Empty, todo |-> <<>>,
             net |-> 0, io |-> 0, owner |-> 0, put |-> "none"]
NoEv == [op |-> "none"]
\* no preloadAllFavorites call made yet
IdleRun == [pc |-> "idle", urls |-> <<>>, i |-> 0, calls |-> <<>>,
            results |-> <<>>, fetched |-> <<>>]

\* let refreshTimer = null
NoTimer == 0
\* the module is loaded and start() has not run
NotStarted ==
    /\ started = FALSE
    /\ stale = 0
    /\ refreshTimer = NoTimer
    /\ timers = {}
    /\ timeouts = 0
\* no periodic refresh and no startup preload configured
NoSchedule ==
    /\ refreshIntervalMinutes = 0
    /\ preloadOnStartup = FALSE

Init ==
    /\ db = EmptyMap
    /\ now = 1
    /\ maxCacheEntries \in SmallMaxCacheEntries
    /\ MEMORY_CACHE = EmptyMap
    /\ REVERSE_CACHE = EmptyMap
    /\ live = {}
    /\ tasks = [s \in Slots |-> IdleTask]
    /\ pendingDel = {}
    /\ clearing = FALSE
    /\ favorites = <<>>
    /\ run = IdleRun
    /\ NotStarted
    /\ NoSchedule
    /\ ev = NoEv

\* ------------------------------------------------------------ Memory Index
\* MEMORY_CACHE, REVERSE_CACHE and the set of unrevoked object URLs, as one value
Index == [m |-> MEMORY_CACHE, r |-> REVERSE_CACHE, l |-> live]

\* const objUrl = URL.createObjectURL(blob);
\* MEMORY_CACHE.set(fetchUrl, objUrl); REVERSE_CACHE.set(objUrl, fetchUrl);
SetIndexForwardOnly(ix, k, h) ==
    [m |-> Put(ix.m, k, h), r |-> ix.r, l |-> ix.l \cup {h}]
SetIndex(ix, k, h) ==
    [m |-> Put(ix.m, k, h), r |-> Put(ix.r, h, k), l |-> ix.l \cup {h}]

\* const objUrl = MEMORY_CACHE.get(url);
\* if (objUrl) { URL.revokeObjectURL(objUrl); REVERSE_CACHE.delete(objUrl);
\*               MEMORY_CACHE.delete(url); }
Release(ix, k) ==
    IF k \in DOMAIN ix.m
    THEN [m |-> Drop(ix.m, {k}), r |-> Drop(ix.r, {ix.m[k]}), l |-> ix.l \ {ix.m[k]}]
    ELSE ix

\* for (const objUrl of MEMORY_CACHE.values()) URL.revokeObjectURL(objUrl);
\* MEMORY_CACHE.clear(); REVERSE_CACHE.clear();
ClearIndex(ix) == [m |-> EmptyMap, r |-> EmptyMap, l |-> ix.l \ Range(ix.m)]

SetIndexVars(ix) ==
    /\ MEMORY_CACHE' = ix.m
    /\ REVERSE_CACHE' = ix.r
    /\ live' = ix.l

\* URL.createObjectURL(blob): an object URL that names nothing else.  The real
\* one is a fresh UUID; a name no map, no unrevoked handle and no activation
\* refers to any more is as good as fresh, so the smallest such name is taken.
InUse == live \cup Range(MEMORY_CACHE) \cup DOMAIN REVERSE_CACHE
CanCreate == Cardinality(InUse) < MaxObj + Len(favorites)
createObjectURL ==
    Handle(CHOOSE n \in 1..Len(ObjIds) :
             /\ Handle(n) \notin InUse
             /\ \A m \in 1..Len(ObjIds) : Handle(m) \notin InUse => n <= m)

\* resolveOriginalUrl(src)
resolveOriginalUrl(src) ==
    IF ~StartsWith(src, "blob:") THEN src
    ELSE IF src \in DOMAIN REVERSE_CACHE THEN REVERSE_CACHE[src] ELSE src

\* ------------------------------------------------------------ pruneCache
Rank(k) ==
    IF \E i \in 1..Len(KeyOrder) : KeyOrder[i] = k
    THEN CHOOSE i \in 1..Len(KeyOrder) : KeyOrder[i] = k
    ELSE Len(KeyOrder) + 1

\* all.sort((a, b) => a.cachedAt - b.cachedAt): a stable sort of getAll's key order
Before(all, x, y) ==
    \/ all[x] < all[y]
    \/ all[x] = all[y] /\ Rank(x) <= Rank(y)

RECURSIVE SortByCachedAt(_, _)
SortByCachedAt(all, S) ==
    IF S = {} THEN <<>>
    ELSE LET first == CHOOSE x \in S : \A y \in S : Before(all, x, y)
         IN  <<first>> \o SortByCachedAt(all, S \ {first})

\* const toDelete = all.slice(0, all.length - max);
ToDeleteOneTooFew(all, max) ==
    LET sorted == SortByCachedAt(all, DOMAIN all)
    IN  SubSeq(sorted, 1, Len(sorted) - max - 1)
ToDelete(all, max) ==
    LET sorted == SortByCachedAt(all, DOMAIN all)
    IN  SubSeq(sorted, 1, Len(sorted) - max)

\* ------------------------------------------------------------ cacheGif
Pending == <<"pending">>
NotCalled == <<"notcalled">>

\* cacheGif up to its first await: the cacheability test, the normalisation and
\* the Memory Index lookup.  val = Pending: the call suspended at dbGet.
CacheGifSyncNoLookup(u) ==
    IF ~isCacheable(u) THEN [val |-> Null, key |-> u]
    ELSE [val |-> Pending, key |-> Normalize(u)]
CacheGifSync(u) ==
    IF ~isCacheable(u) THEN [val |-> Null, key |-> u]
    ELSE LET fetchUrl == Normalize(u)
         IN  IF fetchUrl \in DOMAIN MEMORY_CACHE
             THEN [val |-> MEMORY_CACHE[fetchUrl], key |-> fetchUrl]
             ELSE [val |-> Pending, key |-> fetchUrl]

FreeSlots == {s \in Slots : tasks[s].pc = "idle"}
FreeSlot == CHOOSE s \in FreeSlots : \A t \in FreeSlots : s <= t

\* the tasks after a call cacheGif(u): a new activation when it suspends
Called(u) ==
    LET r == CacheGifSync(u)
    IN  IF r.val = Pending
        THEN [tasks EXCEPT ![FreeSlot] =
                 [IdleTask EXCEPT !.pc = "dbGet", !.in = u, !.url = r.key]]
        ELSE tasks
CanCall(u) == CacheGifSync(u).val = Pending => FreeSlots # {}

Returned(t, v) ==
    [op |-> "cacheGif", in |-> t.in, key |-> t.url, val |-> v,
     net |-> t.net, io |-> t.io]

\* the promise of a call made by preloadAllFavorites settles with v
Settled(r, t, v) ==
    IF t.owner = 0 THEN r ELSE [r EXCEPT !.results[t.owner] = v]
\* what fetch gave the call made for a list element (observation)
Fetched(r, t, outcome) ==
    IF t.owner = 0 THEN r ELSE [r EXCEPT !.fetched[t.owner] = outcome]

\* FluxDispatcher.subscribe(...) in start(): an event reaches a handler while a
\* handler pair is subscribed
Subscribed == started \/ stale > 0

\* A caller invokes cacheGif(src): the favourite-added handler
\*   const src = event?.gif?.src ?? event?.gif?.url;
\*   if (src) cacheGif(src).catch(console.error);
OnFavAdded(src) ==
    /\ Subscribed
    /\ src # Empty
    /\ CanCall(src)
    /\ tasks' = Called(src)
    /\ ev' = LET r == CacheGifSync(src)
             IN  IF r.val = Pending THEN NoEv
                 ELSE [op |-> "cacheGif", in |-> src, key |-> r.key, val |-> r.val,
                       net |-> 0, io |-> 0]
    /\ UNCHANGED <<db, now, maxCacheEntries, MEMORY_CACHE, REVERSE_CACHE, live,
                   pendingDel, clearing, favorites, run,
                   lifeVars>>

\* resolveUrl(src): the value returned (val) and the argument of the cacheGif
\* call it makes (call; NotCalled: none)
\*   if (!src || src.startsWith("blob:")) return src;
\*   const n = ...; const cached = MEMORY_CACHE.get(n); if (cached) return cached;
\*   cacheGif(n).catch(console.error); return src;
resolveUrlNoLookup(src) ==
    IF src = Empty \/ StartsWith(src, "blob:")
    THEN [val |-> src, call |-> NotCalled]
    ELSE [val |-> src, call |-> Normalize(src)]
resolveUrl(src) ==
    IF src = Empty \/ StartsWith(src, "blob:")
    THEN [val |-> src, call |-> NotCalled]
    ELSE LET n == Normalize(src)
         IN  IF n \in DOMAIN MEMORY_CACHE
             THEN [val |-> MEMORY_CACHE[n], call |-> NotCalled]
             ELSE [val |-> src, call |-> n]

ResolveUrl(src) ==
    LET r == resolveUrl(src)
    IN  /\ IF r.call = NotCalled
           THEN /\ tasks' = tasks
                /\ ev' = [op |-> "resolveUrl", in |-> src, val |-> r.val,
                          inner |-> NotCalled]
           ELSE /\ CanCall(r.call)
                /\ tasks' = Called(r.call)
                /\ ev' = [op |-> "resolveUrl", in |-> src, val |-> r.val,
                          inner |-> CacheGifSync(r.call).val]
        /\ UNCHANGED <<db, now, maxCacheEntries, MEMORY_CACHE, REVERSE_CACHE, live,
                       pendingDel, clearing, favorites, run,
                       lifeVars>>

\* const dbEntry = await dbGet(fetchUrl); ok = FALSE: the read failed (undefined)
DbGetDone(s, ok) ==
    LET t == [tasks[s] EXCEPT !.io = @ + 1]
        found == ok /\ t.url \in DOMAIN db
    IN  /\ tasks[s].pc = "dbGet"
        /\ IF found
           THEN /\ CanCreate
                /\ SetIndexVars(SetIndex(Index, t.url, createObjectURL))
                /\ tasks' = [tasks EXCEPT ![s] = IdleTask]
                /\ run' = Settled(run, t, createObjectURL)
                /\ ev' = Returned(t, createObjectURL)
           ELSE /\ tasks' = [tasks EXCEPT ![s] = [t EXCEPT !.pc = "fetch"]]
                /\ ev' = NoEv
                /\ UNCHANGED <<MEMORY_CACHE, REVERSE_CACHE, live, run>>
        /\ UNCHANGED <<db, now, maxCacheEntries, pendingDel, clearing, favorites,
                   lifeVars>>

\* const res = await fetch(fetchUrl, { mode: "cors" }); if (!res.ok) return null;
\* const blob = await res.blob();          (a throw is caught: return null)
FetchOutcomes == {"ok", "notok", "throw"}
\* the retrieval goes on to the store write: fetch did not throw and
\* if (!res.ok) return null; did not return
resOkUnchecked(outcome) == outcome # "throw"
resOk(outcome) == outcome = "ok"
FetchDone(s, outcome) ==
    LET t == [tasks[s] EXCEPT !.net = @ + 1]
    IN  /\ tasks[s].pc = "fetch"
        /\ IF resOk(outcome)
           THEN /\ tasks' = [tasks EXCEPT ![s] = [t EXCEPT !.pc = "dbPut"]]
                /\ run' = Fetched(run, t, outcome)
                /\ ev' = NoEv
           ELSE /\ tasks' = [tasks EXCEPT ![s] = IdleTask]
                /\ run' = Settled(Fetched(run, t, outcome), t, Null)
                /\ ev' = Returned(t, Null)
        /\ UNCHANGED <<db, now, maxCacheEntries, MEMORY_CACHE, REVERSE_CACHE, live,
                       pendingDel, clearing, favorites,
                   lifeVars>>

\* await dbPut(fetchUrl, blob): put({ url, blob, cachedAt: Date.now() });
\* ok = FALSE: the write failed, logged and swallowed.  Then pruneCache() begins.
dbPutLost(store, url, stamp) == store
dbPut(store, url, stamp) == Put(store, url, stamp)
DbPutDone(s, ok) ==
    LET t == [tasks[s] EXCEPT !.io = @ + 1]
    IN  /\ tasks[s].pc = "dbPut"
        /\ db' = IF ok THEN dbPut(db, t.url, now) ELSE db
        /\ tasks' = [tasks EXCEPT ![s] =
                 [t EXCEPT !.pc = "getAll", !.put = IF ok THEN "ok" ELSE "failed"]]
        /\ ev' = NoEv
        /\ UNCHANGED <<now, maxCacheEntries, MEMORY_CACHE, REVERSE_CACHE, live,
                       pendingDel, clearing, favorites, run,
                   lifeVars>>

\* cacheGif after await pruneCache(), in the same run as pruneCache's last step
\* (the continuations of an await chain run before any other task):
\*   const objUrl = URL.createObjectURL(blob);
\*   MEMORY_CACHE.set(fetchUrl, objUrl); REVERSE_CACHE.set(objUrl, fetchUrl);
\*   return objUrl;
\* ix: the Memory Index as pruneCache left it
Cached(s, t, ix) ==
    /\ CanCreate
    /\ SetIndexVars(SetIndex(ix, t.url, createObjectURL))
    /\ tasks' = [tasks EXCEPT ![s] = IdleTask]
    /\ run' = Settled(run, t, createObjectURL)
    /\ ev' = Returned(t, createObjectURL)

\* pruneCache: const all = await dbGetAll(); if (all.length <= max) return;
\* ok = FALSE: the scan failed and dbGetAll returned [].  A for loop over an
\* empty toDelete runs no iteration.
GetAllDone(s, ok) ==
    LET t == [tasks[s] EXCEPT !.io = @ + 1]
        all == IF ok THEN db ELSE EmptyMap
        toDelete == IF Cardinality(DOMAIN all) <= maxCacheEntries THEN <<>>
                    ELSE ToDelete(all, maxCacheEntries)
    IN  /\ tasks[s].pc = "getAll"
        /\ IF toDelete = <<>>
           THEN Cached(s, t, Index)
           ELSE /\ tasks' = [tasks EXCEPT ![s] =
                       [t EXCEPT !.pc = "dbDelete", !.todo = toDelete]]
                /\ ev' = NoEv
                /\ UNCHANGED <<MEMORY_CACHE, REVERSE_CACHE, live, run>>
        /\ UNCHANGED <<db, now, maxCacheEntries, pendingDel, clearing, favorites,
                   lifeVars>>

\* for (const entry of toDelete) { await dbDelete(entry.url); release(entry.url) }
\* ok = FALSE: the delete failed silently.  After the last entry pruneCache
\* returns and cacheGif goes on.
DbDeleteDone(s, ok) ==
    LET k == Head(tasks[s].todo)
        t == [tasks[s] EXCEPT !.io = @ + 1, !.todo = Tail(@)]
    IN  /\ tasks[s].pc = "dbDelete"
        /\ db' = IF ok THEN Drop(db, {k}) ELSE db
        /\ IF t.todo = <<>>
           THEN Cached(s, t, Release(Index, k))
           ELSE /\ SetIndexVars(Release(Index, k))
                /\ tasks' = [tasks EXCEPT ![s] = t]
                /\ ev' = NoEv
                /\ run' = run
        /\ UNCHANGED <<now, maxCacheEntries, pendingDel, clearing, favorites,
                   lifeVars>>

\* ------------------------------------------------------------ CacheInspector
\* The inspector lists the store's records (load(): setEntries(await dbGetAll()))
\* and offers a delete button per listed row and a Clear All button, disabled
\* while clearing or when nothing is listed.  `entries` is display state; what
\* the model keeps of it is which calls it makes possible: a row can be clicked
\* when its record was in the store as the list was loaded.

UiCalls == Cardinality(pendingDel) + (IF clearing THEN 1 ELSE 0)

\* deleteEntry(e.url) is called, and suspends at await dbDelete(url)
DeleteEntryCall(k) ==
    /\ k \in DOMAIN db
    /\ k \notin pendingDel
    /\ UiCalls < MaxUi
    /\ pendingDel' = pendingDel \cup {k}
    /\ ev' = NoEv
    /\ UNCHANGED <<db, now, maxCacheEntries, MEMORY_CACHE, REVERSE_CACHE, live,
                   tasks, clearing, favorites, run,
                   lifeVars>>

\* dbDelete settled (ok = FALSE: it failed silently); the Memory Index entry goes
DeleteEntryDone(k, ok) ==
    /\ k \in pendingDel
    /\ db' = IF ok THEN Drop(db, {k}) ELSE db
    /\ SetIndexVars(Release(Index, k))
    /\ pendingDel' = pendingDel \ {k}
    /\ ev' = NoEv
    /\ UNCHANGED <<now, maxCacheEntries, tasks, clearing, favorites, run,
                   lifeVars>>

\* clearCache(), confirmed: setClearing(true); await dbClearAll();
ClearCacheCall ==
    /\ DOMAIN db # {}
    /\ ~clearing
    /\ UiCalls < MaxUi
    /\ clearing' = TRUE
    /\ ev' = NoEv
    /\ UNCHANGED <<db, now, maxCacheEntries, MEMORY_CACHE, REVERSE_CACHE, live,
                   tasks, pendingDel, favorites, run,
                   lifeVars>>

\* dbClearAll settled (ok = FALSE: it failed, logged); every handle is revoked
ClearCacheDone(ok) ==
    /\ clearing
    /\ db' = IF ok THEN EmptyMap ELSE db
    /\ SetIndexVars(ClearIndex(Index))
    /\ clearing' = FALSE
    /\ ev' = NoEv
    /\ UNCHANGED <<now, maxCacheEntries, tasks, pendingDel, favorites, run,
                   lifeVars>>

\* ------------------------------------------------------------ plugin
\* stop(): revoke every object URL of MEMORY_CACHE, clear both maps
\* let refreshTimer = null; setInterval / clearInterval.  tm: the variable
\* refreshTimer (ref) and the interval timers in existence (set)
Timers == [ref |-> refreshTimer, set |-> timers]
TimerIds == {x.id : x \in timers}

\* if (refreshTimer !== null) { clearInterval(refreshTimer); refreshTimer = null; }
stopAutoRefreshKeepsTimer(tm) == [tm EXCEPT !.ref = NoTimer]
stopAutoRefresh(tm) ==
    IF tm.ref # NoTimer
    THEN [ref |-> NoTimer, set |-> {x \in tm.set : x.id # tm.ref}]
    ELSE tm

\* setInterval(...): a timer id that names no timer in existence
setInterval(tm, mins) ==
    LET id == CHOOSE n \in 1..(MaxTimers + 1) :
                 /\ \A x \in tm.set : x.id # n
                 /\ \A k \in 1..(MaxTimers + 1) : (\A x \in tm.set : x.id # k) => n <= k
    IN  [ref |-> id, set |-> tm.set \cup {[id |-> id, mins |-> mins]}]

\* startAutoRefresh(): stopAutoRefresh(); const mins = ...refreshIntervalMinutes;
\* if (!mins || mins <= 0) return; refreshTimer = setInterval(..., mins * 60_000)
startAutoRefresh(tm, mins) ==
    LET s == stopAutoRefresh(tm)
    IN  IF mins <= 0 THEN s ELSE setInterval(s, mins)

SetTimerVars(tm) ==
    /\ refreshTimer' = tm.ref
    /\ timers' = tm.set

\* start(): the handlers are created and subscribed (the pair of an earlier
\* start() that no stop() unsubscribed stays subscribed, out of reach), the
\* startup preload is scheduled when configured, startAutoRefresh() runs
Start ==
    /\ started => stale < MaxStale
    /\ preloadOnStartup => timeouts < MaxTimeouts
    /\ Cardinality(timers) <= MaxTimers
    /\ started' = TRUE
    /\ stale' = IF started THEN stale + 1 ELSE stale
    /\ timeouts' = IF preloadOnStartup THEN timeouts + 1 ELSE timeouts
    /\ SetTimerVars(startAutoRefresh(Timers, refreshIntervalMinutes))
    /\ ev' = NoEv
    /\ UNCHANGED <<db, now, maxCacheEntries, MEMORY_CACHE, REVERSE_CACHE, live,
                   tasks, pendingDel, clearing, favorites, run,
                   refreshIntervalMinutes, preloadOnStartup>>

Stop ==
    /\ started' = FALSE
    /\ SetTimerVars(stopAutoRefresh(Timers))
    /\ SetIndexVars(ClearIndex(Index))
    /\ ev' = NoEv
    /\ UNCHANGED <<db, now, maxCacheEntries, tasks, pendingDel, clearing, favorites, run,
                   stale, refreshIntervalMinutes, preloadOnStartup, timeouts>>

\* the user changes the refresh interval in the settings panel; the option
\* declares no onChange, so nothing else runs
SetRefreshInterval(mins) ==
    /\ refreshIntervalMinutes' = mins
    /\ ev' = NoEv
    /\ UNCHANGED <<db, now, maxCacheEntries, MEMORY_CACHE, REVERSE_CACHE, live,
                   tasks, pendingDel, clearing, favorites, run,
                   started, stale, preloadOnStartup, refreshTimer, timers, timeouts>>

\* the wall clock advances
Tick ==
    /\ now < MaxClock
    /\ now' = now + 1
    /\ ev' = NoEv
    /\ UNCHANGED <<db, maxCacheEntries, MEMORY_CACHE, REVERSE_CACHE, live,
                   tasks, pendingDel, clearing, favorites, run,
                   lifeVars>>

\* ------------------------------------------------------------ favourites
\* getFavoriteGifSrcUrls(): the src values that are non-empty strings ([] when
\* the store has no favourites yet)
IsSrc(u) == u # Empty
getFavoriteGifSrcUrls == SelectSeq(favorites, IsSrc)

\* urls.slice(i, i + BATCH): the positions (counted from 1) of the group after i
SliceShort(urls, i) == {j \in 1..Len(urls) : i < j /\ j < i + BATCH}
Slice(urls, i) == {j \in 1..Len(urls) : i < j /\ j <= i + BATCH}

\* the n-th idle activation record
RECURSIVE NthFree(_, _)
NthFree(F, n) ==
    LET first == CHOOSE s \in F : \A t \in F : s <= t
    IN  IF n = 1 THEN first ELSE NthFree(F \ {first}, n - 1)

\* cacheGif is called on us[j] for each j of J, in order, with no await between
\* the calls: each call runs up to its first await, and none of them changes
\* the Memory Index.  own: the calls are preloadAllFavorites's.
Suspending(us, J) == {j \in J : CacheGifSync(us[j]).val = Pending}
CanCallAll(us, J) == Cardinality(Suspending(us, J)) <= Cardinality(FreeSlots)
CalledAll(us, J, own) ==
    LET P == Suspending(us, J)
        slot(j) == NthFree(FreeSlots, Cardinality({x \in P : x <= j}))
    IN  [s \in Slots |->
           IF \E j \in P : slot(j) = s
           THEN LET j == CHOOSE x \in P : slot(x) = s
                IN  [IdleTask EXCEPT !.pc = "dbGet", !.in = us[j],
                                     !.url = CacheGifSync(us[j]).key,
                                     !.owner = IF own THEN j ELSE 0]
           ELSE tasks[s]]

\* for (let i = 0; i < urls.length; i += BATCH)
\*     await Promise.allSettled(urls.slice(i, i + BATCH).map(cacheGif));
\* one iteration up to its await: the calls of the group after i are made
GroupStarted(r, i) ==
    LET J == Slice(r.urls, i)
    IN  [r EXCEPT !.pc = "running", !.i = i,
                  !.calls = [j \in 1..Len(r.urls) |->
                               IF j \in J THEN r.calls[j] + 1 ELSE r.calls[j]],
                  !.results = [j \in 1..Len(r.urls) |->
                                 IF j \in J THEN CacheGifSync(r.urls[j]).val
                                 ELSE r.results[j]]]
\* Promise.allSettled: every promise of the group has settled
GroupAnySettled(r) ==
    \E j \in Slice(r.urls, r.i) : r.results[j] \notin {Pending, NotCalled}
GroupSettled(r) ==
    \A j \in Slice(r.urls, r.i) : r.results[j] \notin {Pending, NotCalled}

\* preloadAllFavorites() up to its first await: the list is read, and the first
\* group's calls are made
Preload ==
    LET urls == getFavoriteGifSrcUrls
        r == [pc |-> "running", urls |-> urls, i |-> 0,
              calls |-> [j \in 1..Len(urls) |-> 0],
              results |-> [j \in 1..Len(urls) |-> NotCalled],
              fetched |-> [j \in 1..Len(urls) |-> "none"]]
    IN  /\ IF urls = <<>>
           THEN /\ run' = [r EXCEPT !.pc = "done"]
                /\ tasks' = tasks
           ELSE /\ CanCallAll(urls, Slice(urls, 0))
                /\ run' = GroupStarted(r, 0)
                /\ tasks' = CalledAll(urls, Slice(urls, 0), TRUE)
        /\ ev' = NoEv
        /\ UNCHANGED <<db, now, maxCacheEntries, MEMORY_CACHE, REVERSE_CACHE, live,
                       pendingDel, clearing, favorites>>

\* preloadAllFavorites() is called (startup timeout, refresh timer): the list is
\* read, and the first group's calls are made
PreloadStart ==
    /\ run.pc = "idle"
    /\ Preload
    /\ UNCHANGED lifeVars

\* one run of preloadAllFavorites is followed at a time
CanPreload == run.pc # "running"

\* the interval timer t fires: () => preloadAllFavorites()
TimerFires(t) ==
    /\ t \in timers
    /\ CanPreload
    /\ Preload
    /\ UNCHANGED lifeVars

\* the startup timeout fires: setTimeout(() => preloadAllFavorites(), 5000)
StartupTimeoutFires ==
    /\ timeouts > 0
    /\ CanPreload
    /\ Preload
    /\ timeouts' = timeouts - 1
    /\ UNCHANGED <<started, stale, refreshIntervalMinutes, preloadOnStartup,
                   refreshTimer, timers>>

\* the await of a group returns: the next group's calls are made, or the loop ends
PreloadResume ==
    LET i == run.i + BATCH
    IN  /\ run.pc = "running"
        /\ GroupSettled(run)
        /\ IF i < Len(run.urls)
           THEN /\ CanCallAll(run.urls, Slice(run.urls, i))
                /\ run' = GroupStarted(run, i)
                /\ tasks' = CalledAll(run.urls, Slice(run.urls, i), TRUE)
           ELSE /\ run' = [run EXCEPT !.pc = "done"]
                /\ tasks' = tasks
        /\ ev' = NoEv
        /\ UNCHANGED <<db, now, maxCacheEntries, MEMORY_CACHE, REVERSE_CACHE, live,
                       pendingDel, clearing, favorites,
                   lifeVars>>

\* _onProtoUpdate: for (const url of getFavoriteGifSrcUrls()) {
\*     const n = ...; if (!MEMORY_CACHE.has(n)) cacheGif(url).catch(console.error); }
OnProtoUpdate ==
    LET urls == getFavoriteGifSrcUrls
        J == {j \in 1..Len(urls) : Normalize(urls[j]) \notin DOMAIN MEMORY_CACHE}
    IN  /\ Subscribed
        /\ CanCallAll(urls, J)
        /\ tasks' = CalledAll(urls, J, FALSE)
        /\ ev' = [op |-> "protoUpdate",
                  calls |-> {[in |-> urls[j], val |-> CacheGifSync(urls[j]).val] :
                               j \in J}]
        /\ UNCHANGED <<db, now, maxCacheEntries, MEMORY_CACHE, REVERSE_CACHE, live,
                       pendingDel, clearing, favorites, run,
                   lifeVars>>

\* ------------------------------------------------------------ specification
\* Oks: the outcomes the store operations may have (TRUE succeeded, FALSE failed)
\* the steps of the cacheGif call in activation record s
TaskStep(s, Oks) ==
    \/ \E ok \in Oks : DbGetDone(s, ok)
    \/ \E o \in FetchOutcomes : FetchDone(s, o)
    \/ \E ok \in Oks : DbPutDone(s, ok)
    \/ \E ok \in Oks : GetAllDone(s, ok)
    \/ \E ok \in Oks : DbDeleteDone(s, ok)

\* the plugin manager starts a plugin that is not started
StartOnce == ~started /\ Start

Steps(Oks) ==
    \/ StartOnce
    \/ \E s \in Slots : TaskStep(s, Oks)
    \/ \E k \in Keys : DeleteEntryCall(k)
    \/ \E k \in Keys, ok \in Oks : DeleteEntryDone(k, ok)
    \/ ClearCacheCall
    \/ \E ok \in Oks : ClearCacheDone(ok)
    \/ Stop
    \/ Tick

ConcInputs == {UA, UB}
Suspends(src) == CacheGifSync(src).val = Pending
InFlight == Cardinality({s \in Slots : tasks[s].pc # "idle"})
MayCall == InFlight < MaxTasks

\* Concurrent use.  A call that returns before its first await changes no
\* variable of the program, so only the calls that suspend are taken here;
\* the others are taken under SpecSeq.
CallConcurrent(src) == Suspends(src) /\ MayCall /\ OnFavAdded(src)
Next ==
    \/ \E src \in ConcInputs : CallConcurrent(src)
    \/ Steps(BOOLEAN)
Spec == Init /\ [][Next]_vars

\* every store operation succeeds (network retrievals may still fail)
NextStoreOk ==
    \/ \E src \in ConcInputs : CallConcurrent(src)
    \/ Steps({TRUE})
SpecStoreOk == Init /\ [][NextStoreOk]_vars

\* Sequential use: a caller starts a call only when none is in flight.
AllIdle == \A s \in Slots : tasks[s].pc = "idle"
CallInSequence(src) == AllIdle /\ OnFavAdded(src)
ResolveInSequence(src) == AllIdle /\ ResolveUrl(src)
NextSeq ==
    \/ \E src \in Inputs : CallInSequence(src)
    \/ \E src \in Inputs : ResolveInSequence(src)
    \/ Steps(BOOLEAN)
SpecSeq == Init /\ [][NextSeq]_vars

\* sequential use, every store operation succeeding
NextSeqOk ==
    \/ \E src \in Inputs : CallInSequence(src)
    \/ \E src \in Inputs : ResolveInSequence(src)
    \/ Steps({TRUE})
SpecSeqOk == Init /\ [][NextSeqOk]_vars

\* The handlers and the preload, beside single calls: the favourites hold
\* cacheable and non-cacheable entries, the empty string and repeats.
FavListsSync == {<<>>, <<UA, Proxy1>>, <<Handle(1), PA, Empty, Proxy2, UB>>}
InitSync ==
    /\ db = EmptyMap
    /\ now = 1
    /\ maxCacheEntries \in SmallMaxCacheEntries
    /\ MEMORY_CACHE = EmptyMap
    /\ REVERSE_CACHE = EmptyMap
    /\ live = {}
    /\ tasks = [s \in Slots |-> IdleTask]
    /\ pendingDel = {}
    /\ clearing = FALSE
    /\ favorites \in FavListsSync
    /\ run = IdleRun
    /\ NotStarted
    /\ NoSchedule
    /\ ev = NoEv
ProtoUpdateInSequence == AllIdle /\ OnProtoUpdate
PreloadInSequence == AllIdle /\ PreloadStart
NextSync ==
    \/ \E src \in Inputs : CallInSequence(src)
    \/ \E src \in Inputs : ResolveInSequence(src)
    \/ ProtoUpdateInSequence
    \/ PreloadInSequence
    \/ PreloadResume
    \/ \E s \in Slots : TaskStep(s, {TRUE})
    \/ StartOnce
    \/ Stop
SpecSync == InitSync /\ [][NextSync]_vars

\* One preload over lists longer than a group, retrievals failing at will.
\* Every awaited store request and every fetch settles, and the continuation
\* of a settled promise runs: weak fairness of each call's steps and of the
\* preload's resumption.
FavListsPreload ==
    {<<UA, UB, UC, UD, UE>>, <<UA, Proxy1, UB, UA, PA, UC>>, <<UA>>, <<>>}
InitPreload ==
    /\ db = EmptyMap
    /\ now = 1
    /\ maxCacheEntries \in {2, DefaultMaxCacheEntries}
    /\ MEMORY_CACHE = EmptyMap
    /\ REVERSE_CACHE = EmptyMap
    /\ live = {}
    /\ tasks = [s \in Slots |-> IdleTask]
    /\ pendingDel = {}
    /\ clearing = FALSE
    /\ favorites \in FavListsPreload
    /\ run = IdleRun
    /\ NotStarted
    /\ NoSchedule
    /\ ev = NoEv
NextPreload ==
    \/ PreloadStart
    \/ PreloadResume
    \/ \E s \in Slots : TaskStep(s, {TRUE})
SpecPreload ==
    /\ InitPreload
    /\ [][NextPreload]_vars
    /\ WF_vars(PreloadResume)
    /\ \A s \in Slots : WF_vars(TaskStep(s, {TRUE}))

\* The lifecycle: start() and stop() in any order, the refresh interval changed
\* at will, the interval timers and the startup timeout firing, each running
\* a preload over two favourites of which the store keeps one.
\* refreshIntervalMinutes: default: 30
DefaultRefreshIntervalMinutes == 30
RefreshValues == {-1, 0, 5, DefaultRefreshIntervalMinutes}
InitLife ==
    /\ db = EmptyMap
    /\ now = 1
    /\ maxCacheEntries = 1
    /\ MEMORY_CACHE = EmptyMap
    /\ REVERSE_CACHE = EmptyMap
    /\ live = {}
    /\ tasks = [s \in Slots |-> IdleTask]
    /\ pendingDel = {}
    /\ clearing = FALSE
    /\ favorites = <<UA, UB>>
    /\ run = IdleRun
    /\ NotStarted
    /\ refreshIntervalMinutes \in RefreshValues
    /\ preloadOnStartup \in BOOLEAN
    /\ ev = NoEv
NextLife ==
    \/ Start
    \/ Stop
    \/ \E mins \in RefreshValues : SetRefreshInterval(mins)
    \/ \E t \in timers : TimerFires(t)
    \/ StartupTimeoutFires
    \/ PreloadResume
    \/ \E s \in Slots : TaskStep(s, {TRUE})
SpecLife == InitLife /\ [][NextLife]_vars

\* The periodic refresh: the plugin is started with the startup preload and a
\* positive refresh interval over a list of distinct cacheable favourites that
\* fits within maxCacheEntries; every store operation and every retrieval
\* succeeds.  The startup timeout and the interval timer run preloadAllFavorites
\* again and again.  No record is ever selected for eviction here
\* (C20_PreloadFixedPoint checks it), so dbDelete has no step to take.
FavListsRefresh == {<<UA>>, <<PA, UB>>, <<UA, UB, UC, UD, UE>>}
InitRefresh ==
    /\ db = EmptyMap
    /\ now = 1
    /\ favorites \in FavListsRefresh
    /\ maxCacheEntries \in {Len(favorites), DefaultMaxCacheEntries}
    /\ MEMORY_CACHE = EmptyMap
    /\ REVERSE_CACHE = EmptyMap
    /\ live = {}
    /\ tasks = [s \in Slots |-> IdleTask]
    /\ pendingDel = {}
    /\ clearing = FALSE
    /\ run = IdleRun
    /\ NotStarted
    /\ refreshIntervalMinutes = DefaultRefreshIntervalMinutes
    /\ preloadOnStartup = TRUE
    /\ ev = NoEv
TaskStepOk(s) ==
    \/ DbGetDone(s, TRUE)
    \/ FetchDone(s, "ok")
    \/ DbPutDone(s, TRUE)
    \/ GetAllDone(s, TRUE)
NextRefresh ==
    \/ StartOnce
    \/ StartupTimeoutFires
    \/ \E t \in timers : TimerFires(t)
    \/ PreloadResume
    \/ \E s \in Slots : TaskStepOk(s)
    \/ Tick
SpecRefresh == InitRefresh /\ [][NextRefresh]_vars

\* ================================================================ properties
Count == Cardinality(DOMAIN db)
Pruning(s) == tasks[s].pc \in {"getAll", "dbDelete"}
Quiescent == AllIdle /\ pendingDel = {} /\ ~clearing
\* a cacheGif call returned on this step
ReturnedNow == ev'.op = "cacheGif"
\* the entries of a sequence
Elems(q) == {q[i] : i \in 1..Len(q)}

\* C1 (SpecStoreOk).  Eviction bound: whenever no cacheGif call is between its
\* dbPut and the end of its pruneCache, the store holds at most maxCacheEntries
\* records, under every interleaving of successful calls.
C1_EvictionBound ==
    (\A s \in Slots : ~Pruning(s)) => Count <= maxCacheEntries

\* C1 witness: a call has just finished an eviction (getAll and at least one
\* delete after its put) and the store is back at exactly the bound.
C1_Witness ==
    /\ ev.op = "cacheGif" /\ ev.io >= 4
    /\ \A s \in Slots : ~Pruning(s)
    /\ Count = maxCacheEntries

\* The step on which pruneCache of call s reads the store and selects.
Selects(s) == tasks[s].pc = "getAll" /\ tasks'[s].pc # "getAll"
Selected(s) == Elems(tasks'[s].todo)
Excess == IF Count > maxCacheEntries THEN Count - maxCacheEntries ELSE 0
\* The step on which pruneCache of call s deletes a record.
Deletes(s) == tasks[s].pc = "dbDelete" /\ tasks'[s].todo # tasks[s].todo

\* C2 as claimed (SpecSeqOk).  Each enforcement selects exactly count - max
\* records (none when count <= max), every one of them strictly older than
\* every retained record, and the record the call has just written is never
\* among them.
C2_EvictionRetainsNewest ==
    [][\A s \in Slots :
         Selects(s) =>
            /\ Cardinality(Selected(s)) = Excess
            /\ \A d \in Selected(s), r \in DOMAIN db \ Selected(s) : db[d] < db[r]
            /\ tasks[s].url \notin Selected(s)]_vars

\* What the enforcement does guarantee (SpecSeqOk): it selects exactly
\* count - max records and deletes exactly those, one per step; none of them
\* is newer than a retained record; the record just written is selected only
\* when every retained record carries the same cachedAt as it.
EvictsNoNewer ==
    [][\A s \in Slots :
         /\ Selects(s) =>
              /\ Cardinality(Selected(s)) = Excess
              /\ Len(tasks'[s].todo) = Excess
              /\ \A d \in Selected(s), r \in DOMAIN db \ Selected(s) : db[d] <= db[r]
              /\ tasks[s].url \in Selected(s) =>
                    \A r \in DOMAIN db \ Selected(s) : db[r] = db[tasks[s].url]
         /\ Deletes(s) => db' = Drop(db, {Head(tasks[s].todo)})]_vars

\* C3 (SpecSeq).  Idempotent resolve.  A call that returns a handle leaves that
\* handle in the Memory Index under the normalized URL; a call made while the
\* Memory Index holds the URL returns that same handle with no network
\* retrieval, no store operation and no change to either tier; and a cacheable
\* call returns null only on the step that reports a failed retrieval.  So the
\* second of two calls in sequence returns the first one's handle from memory.
C3_IdempotentResolve ==
    [][ReturnedNow /\ isCacheable(ev'.in) =>
          /\ ev'.key = Normalize(ev'.in)
          /\ ev'.val # Null =>
                /\ ev'.val \in Handles
                /\ ev'.key \in DOMAIN MEMORY_CACHE'
                /\ MEMORY_CACHE'[ev'.key] = ev'.val
          /\ ev'.key \in DOMAIN MEMORY_CACHE =>
                /\ ev'.val = MEMORY_CACHE[ev'.key]
                /\ ev'.net = 0 /\ ev'.io = 0
                /\ UNCHANGED <<db, MEMORY_CACHE, REVERSE_CACHE, live, tasks>>
          /\ ev'.val = Null =>
                \E s \in Slots : tasks[s].pc = "fetch" /\ tasks'[s].pc = "idle"]_vars

\* C3 witness: a call for a protocol-relative URL was answered from the Memory
\* Index (no retrieval, no store operation) with the handle held there.
C3_Witness ==
    /\ ev.op = "cacheGif"
    /\ ev.in = PA
    /\ ev.val \in Handles
    /\ ev.net = 0 /\ ev.io = 0
    /\ MEMORY_CACHE[UA] = ev.val

\* C4 (SpecSeqOk).  Tier promotion.  When a call that missed the Memory Index
\* finds its record in the store, it returns a handle on that step with no
\* network retrieval, the store is left as it was (cachedAt included) and the
\* Memory Index holds the forward and the reverse entry afterwards.
C4_TierPromotion ==
    [][\A s \in Slots :
         /\ tasks[s].pc = "dbGet"
         /\ tasks'[s].pc # "dbGet"
         /\ tasks[s].url \in DOMAIN db
         => /\ ReturnedNow
            /\ ev'.in = tasks[s].in
            /\ ev'.val \in Handles
            /\ ev'.net = 0
            /\ db' = db
            /\ tasks[s].url \in DOMAIN MEMORY_CACHE'
            /\ MEMORY_CACHE'[tasks[s].url] = ev'.val
            /\ ev'.val \in DOMAIN REVERSE_CACHE'
            /\ REVERSE_CACHE'[ev'.val] = tasks[s].url]_vars

\* C4 witness: a call returned a handle having read the store once and made no
\* retrieval, and the record it read is still there.
C4_Witness ==
    /\ ev.op = "cacheGif"
    /\ ev.val \in Handles
    /\ ev.net = 0 /\ ev.io = 1
    /\ ev.key \in DOMAIN db
    /\ ev.key \in DOMAIN MEMORY_CACHE

\* The URLs the claim excludes: empty, a local handle, or of an incompatible proxy.
Excluded(u) ==
    \/ u = Empty
    \/ StartsWith(u, "blob:")
    \/ Includes(u, "images-ext-1.discordapp.net")
    \/ Includes(u, "images-ext-2.discordapp.net")
\* the list positions whose cacheGif call the preload made on this step
CalledNow == {j \in 1..Len(run'.urls) :
                run'.calls[j] = 1 /\ (run.pc = "idle" \/ run.calls[j] = 0)}

\* C5 (SpecSync).  Non-cacheable exclusion.  A cacheGif call on an excluded URL
\* returns null on the step it is made, with no store operation and no network
\* retrieval, and that step changes neither the store nor either map; no
\* suspended call ever carries an excluded URL.  This holds for a direct call
\* (the favourite-added handler), through resolveUrl (which returns its
\* argument), through the bulk-change handler and through a preload.
C5_NonCacheableExclusion ==
    [][/\ \A s \in Slots : tasks'[s].pc # "idle" => ~Excluded(tasks'[s].in)
       /\ (ev'.op = "cacheGif" /\ Excluded(ev'.in)) =>
             /\ ev'.val = Null
             /\ ev'.net = 0 /\ ev'.io = 0
             /\ UNCHANGED <<db, MEMORY_CACHE, REVERSE_CACHE, live, tasks>>
       /\ (ev'.op = "resolveUrl" /\ Excluded(ev'.in)) =>
             /\ ev'.val = ev'.in
             /\ ev'.inner \in {NotCalled, Null}
             /\ UNCHANGED <<db, MEMORY_CACHE, REVERSE_CACHE, live, tasks>>
       /\ ev'.op = "protoUpdate" =>
             /\ \A c \in ev'.calls : Excluded(c.in) => c.val = Null
             /\ UNCHANGED <<db, MEMORY_CACHE, REVERSE_CACHE, live>>
       /\ CalledNow # {} =>
             /\ \A j \in CalledNow :
                   Excluded(run'.urls[j]) => run'.results[j] = Null
             /\ UNCHANGED <<db, MEMORY_CACHE, REVERSE_CACHE, live>>]_vars

\* C5 witness: with records in the store and the Memory Index, a preload has
\* passed a proxy URL to cacheGif and got null, and the bulk-change handler has
\* just done the same.
C5_Witness ==
    /\ DOMAIN db # {}
    /\ DOMAIN MEMORY_CACHE # {}
    /\ run.pc = "done"
    /\ \E j \in 1..Len(run.urls) :
          Excluded(run.urls[j]) /\ run.calls[j] = 1 /\ run.results[j] = Null
    /\ ev.op = "protoUpdate"
    /\ \E c \in ev.calls : Excluded(c.in) /\ c.val = Null

\* C6 as claimed (Spec).  A returned handle reverse-resolves to the normalized
\* URL, and every handle that reverse-resolves to a URL is the handle the
\* forward map holds for that URL.
C6_ReverseMapping ==
    /\ (ev.op = "cacheGif" /\ ev.val # Null)
          => resolveOriginalUrl(ev.val) = Normalize(ev.in)
    /\ \A h \in Handles :
          resolveOriginalUrl(h) # h =>
             /\ resolveOriginalUrl(h) \in DOMAIN MEMORY_CACHE
             /\ MEMORY_CACHE[resolveOriginalUrl(h)] = h

\* C7 as claimed (Spec).  On the step that removes a record from the store
\* (eviction, deleteEntry or clearCache) the Memory Index is left with no
\* forward entry for the URL and no reverse entry mapping to it.
C7_ReleaseOnRemoval ==
    [][\A k \in DOMAIN db \ DOMAIN db' :
          /\ k \notin DOMAIN MEMORY_CACHE'
          /\ \A h \in DOMAIN REVERSE_CACHE' : REVERSE_CACHE'[h] # k]_vars

\* C8 as claimed (Spec).  MEMORY_CACHE and REVERSE_CACHE are inverses.
C8_Bijection ==
    /\ \A k \in DOMAIN MEMORY_CACHE :
          /\ MEMORY_CACHE[k] \in DOMAIN REVERSE_CACHE
          /\ REVERSE_CACHE[MEMORY_CACHE[k]] = k
    /\ \A h \in DOMAIN REVERSE_CACHE :
          /\ REVERSE_CACHE[h] \in DOMAIN MEMORY_CACHE
          /\ MEMORY_CACHE[REVERSE_CACHE[h]] = h

\* C9 as claimed (Spec).  With nothing in flight, every URL of the Memory Index
\* has a record in the store.
C9_IndexBacked ==
    Quiescent => DOMAIN MEMORY_CACHE \subseteq DOMAIN db

PreloadDone == run.pc = "done"
Positions == 1..Len(run.urls)
RetrievalFailed(j) == run.fetched[j] \in {"notok", "throw"}

\* C10 (SpecPreload).  Batch resilience.  A preload that has started ends; it
\* never calls cacheGif twice for a list element; when it has ended it has
\* called cacheGif exactly once for every element of the list, every call has
\* settled, every element whose retrieval succeeded got a handle, and null was
\* given only for an excluded URL or a failed retrieval, whatever failed in the
\* same group or an earlier one; and when the list fits within
\* maxCacheEntries every resolved URL is in the Memory Index at the end.
C10_BatchResilience ==
    /\ [](\A j \in Positions : run.calls[j] <= 1)
    /\ [](PreloadDone =>
            /\ run.urls = getFavoriteGifSrcUrls
            /\ \A j \in Positions :
                  /\ run.calls[j] = 1
                  /\ run.results[j] \in Handles \cup {Null}
                  /\ run.fetched[j] = "ok" => run.results[j] \in Handles
                  /\ run.results[j] = Null =>
                        Excluded(run.urls[j]) \/ RetrievalFailed(j)
                  /\ (run.results[j] \in Handles
                        /\ Len(run.urls) <= maxCacheEntries) =>
                        Normalize(run.urls[j]) \in DOMAIN MEMORY_CACHE)
    /\ (run.pc = "running" ~> PreloadDone)

\* C10 witness: a preload over more than one group has ended; in its first
\* group one retrieval failed and another member was resolved, and a member of
\* a later group was resolved by a retrieval of its own.
C10_Witness ==
    /\ PreloadDone
    /\ Len(run.urls) > BATCH
    /\ \E j, k \in 1..BATCH :
          /\ RetrievalFailed(j)
          /\ run.fetched[k] = "ok" /\ run.results[k] \in Handles
    /\ \E j \in (BATCH + 1)..Len(run.urls) :
          run.fetched[j] = "ok" /\ run.results[j] \in Handles

\* C11 (SpecLife).  At most one periodic timer.  Whatever start() and stop()
\* calls were made, at most one interval timer exists, and it is the one
\* refreshTimer names; and a start() made while refreshIntervalMinutes is not
\* positive leaves no interval timer at all.
C11_OneTimer ==
    /\ [](/\ Cardinality(timers) <= 1
          /\ TimerIds = {refreshTimer} \ {NoTimer})
    /\ [][(Start /\ refreshIntervalMinutes <= 0) => timers' = {}]_vars

\* C11 witness: start() was called again on a started plugin, the interval
\* being positive, and exactly one timer exists
C11_Witness ==
    /\ started
    /\ stale = 1
    /\ refreshIntervalMinutes > 0
    /\ Cardinality(timers) = 1

\* C12 as claimed (SpecLife).  Reconfiguring the period takes effect while
\* running: when refreshIntervalMinutes is changed on a started plugin, the
\* timers in existence afterwards are exactly one timer of the new period when
\* the new period is positive, and none when it is not.
C12_ReconfigureTakesEffect ==
    [][\A mins \in RefreshValues :
          (started /\ mins # refreshIntervalMinutes /\ SetRefreshInterval(mins)) =>
              IF mins > 0
              THEN /\ Cardinality(timers') = 1
                   /\ \A t \in timers' : t.mins = mins
              ELSE timers' = {}]_vars

Activated == {s \in Slots : tasks[s].pc = "idle" /\ tasks'[s].pc # "idle"}

\* C13 (SpecSeq).  Forward resolve.  A resolveUrl(src) call changes neither the
\* store nor the Memory Index on its own step.  For an empty src or a local
\* handle it returns src and calls nothing.  Otherwise, when the Memory Index
\* holds the normalized src it returns the handle held there and calls
\* nothing; when it does not, it returns src itself and makes one cacheGif
\* call, which (the URL being cacheable) leaves exactly one activation
\* suspended, for the normalized URL.
C13_ForwardResolve ==
    [][ev'.op = "resolveUrl" =>
          LET src == ev'.in
              n == Normalize(src)
          IN  /\ UNCHANGED <<db, MEMORY_CACHE, REVERSE_CACHE, live>>
              /\ IF src = Empty \/ StartsWith(src, "blob:")
                 THEN /\ ev'.val = src
                      /\ ev'.inner = NotCalled
                      /\ tasks' = tasks
                 ELSE IF n \in DOMAIN MEMORY_CACHE
                 THEN /\ ev'.val = MEMORY_CACHE[n]
                      /\ ev'.inner = NotCalled
                      /\ tasks' = tasks
                 ELSE /\ ev'.val = src
                      /\ ev'.inner # NotCalled
                      /\ \A s \in Slots \ Activated : tasks'[s] = tasks[s]
                      /\ IF isCacheable(n)
                         THEN /\ ev'.inner = Pending
                              /\ Cardinality(Activated) = 1
                              /\ \A s \in Activated :
                                    tasks'[s].pc = "dbGet" /\ tasks'[s].url = n
                         ELSE /\ ev'.inner = Null
                              /\ Activated = {}]_vars

\* C13 witness: resolveUrl of a protocol-relative URL missed the Memory Index,
\* returned the URL as given and left a cacheGif call for the normalized URL
\* suspended at its store read
C13_Witness ==
    /\ ev.op = "resolveUrl"
    /\ ev.in = PA
    /\ ev.val = PA
    /\ ev.inner = Pending
    /\ \E s \in Slots : tasks[s].pc = "dbGet" /\ tasks[s].url = UA

HeldHandles == Range(MEMORY_CACHE) \cup DOMAIN REVERSE_CACHE

\* C14 as claimed (Spec).  Shutdown.  When stop() returns no interval timer
\* exists, both maps of the Memory Index are empty, every handle that was in
\* either of them is revoked, and the store is as it was before stop().
C14_Shutdown ==
    [][Stop =>
          /\ timers' = {}
          /\ refreshTimer' = NoTimer
          /\ MEMORY_CACHE' = EmptyMap
          /\ REVERSE_CACHE' = EmptyMap
          /\ HeldHandles \cap live' = {}
          /\ db' = db]_vars

FailedOutcomes == {"notok", "throw"}

\* C15 (Spec).  Network failure is local and writes nothing.  When the
\* retrieval of a call gives a non-success response or fails in transport, the
\* call returns null on that step and the step changes neither the store nor
\* either map of the Memory Index nor the set of unrevoked handles; and the
\* store miss that led the call to the network changed none of them either.
C15_NetworkFailure ==
    [][\A s \in Slots :
          /\ \A o \in FailedOutcomes :
                FetchDone(s, o) =>
                   /\ ReturnedNow
                   /\ ev'.in = tasks[s].in
                   /\ ev'.val = Null
                   /\ tasks'[s] = IdleTask
                   /\ UNCHANGED <<db, MEMORY_CACHE, REVERSE_CACHE, live>>
          /\ (tasks[s].pc = "dbGet" /\ tasks'[s].pc = "fetch") =>
                UNCHANGED <<db, MEMORY_CACHE, REVERSE_CACHE, live>>]_vars

\* C15 witness: a call for a cacheable URL returned null after one retrieval,
\* and neither tier holds the URL
C15_Witness ==
    /\ ev.op = "cacheGif"
    /\ isCacheable(ev.in)
    /\ ev.val = Null
    /\ ev.net = 1
    /\ ev.key \notin DOMAIN db
    /\ ev.key \notin DOMAIN MEMORY_CACHE

WriteFailed(s) == tasks[s].put = "failed"

\* C16 as claimed (SpecSeq).  Storage failure degrades to a miss.  A call whose
\* store read failed goes on to the network retrieval.  A failed store write
\* leaves the store as it was, and the call whose write failed returns (no
\* error reaches its caller) leaving no Memory Index entry for its URL.
C16_StorageFailure ==
    [][\A s \in Slots :
          /\ DbGetDone(s, FALSE) => tasks'[s].pc = "fetch"
          /\ DbPutDone(s, FALSE) => db' = db
          /\ (WriteFailed(s) /\ tasks'[s].pc = "idle") =>
                /\ ReturnedNow
                /\ ev'.in = tasks[s].in
                /\ tasks[s].url \notin DOMAIN MEMORY_CACHE'
                /\ \A h \in DOMAIN REVERSE_CACHE' :
                      REVERSE_CACHE'[h] # tasks[s].url]_vars

\* C17 as claimed (Spec).  Handle lifetime.  While the plugin is stopped (after
\* stop() returned and before the next start()) the Memory Index is empty and
\* no unrevoked handle exists, whatever call was in flight when stop() ran.
C17_HandleLifetime ==
    ~started =>
        /\ MEMORY_CACHE = EmptyMap
        /\ REVERSE_CACHE = EmptyMap
        /\ live = {}

HandlesOf(k) == {h \in live : h \in DOMAIN REVERSE_CACHE /\ REVERSE_CACHE[h] = k}

\* C18 as claimed (Spec).  One live handle per URL.  In every state each
\* unrevoked handle is the one MEMORY_CACHE holds for its URL, so a URL has at
\* most one unrevoked handle; and when a handle is stored for a URL that has
\* one, the earlier handle is revoked on that step.
C18_OneLiveHandle ==
    /\ [](\A h \in live :
            \E k \in DOMAIN MEMORY_CACHE : MEMORY_CACHE[k] = h)
    /\ [](\A k \in Keys : Cardinality(HandlesOf(k)) <= 1)
    /\ [][\A k \in DOMAIN MEMORY_CACHE :
            (k \in DOMAIN MEMORY_CACHE' /\ MEMORY_CACHE'[k] # MEMORY_CACHE[k]) =>
                MEMORY_CACHE[k] \notin live']_vars

GroupOf(j) == (j - 1) \div BATCH
OwnInFlight == {s \in Slots : tasks[s].pc # "idle" /\ tasks[s].owner # 0}
\* the positions whose cacheGif call is made on this step
CalledOnStep ==
    IF run' = run THEN {}
    ELSE {j \in 1..Len(run'.urls) :
            run'.calls[j] > (IF run.pc = "running" THEN run.calls[j] ELSE 0)}

\* C19 (SpecPreload).  Batch concurrency cap.  At most BATCH calls made by the
\* run are in flight at any time.  The calls made on one step are those of all
\* the positions of one group, the groups being the consecutive slices of
\* BATCH positions of the list; when they are made every position of every
\* earlier group has been called and has settled, and no position of a later
\* group has been called.
C19_BatchCap ==
    /\ [](/\ Cardinality(OwnInFlight) <= BATCH
          /\ Cardinality({j \in Positions : run.results[j] = Pending}) <= BATCH)
    /\ [][CalledOnStep # {} =>
            \E g \in 0..GroupOf(Len(run'.urls)) :
               /\ CalledOnStep = {j \in 1..Len(run'.urls) : GroupOf(j) = g}
               /\ \A j \in 1..Len(run'.urls) :
                     /\ GroupOf(j) < g =>
                           /\ run.pc = "running"
                           /\ run.calls[j] = 1
                           /\ run.results[j] \notin {Pending, NotCalled}
                           /\ \A s \in OwnInFlight : tasks[s].owner # j
                     /\ GroupOf(j) > g => run'.calls[j] = 0]_vars

\* C19 witness: a list longer than one group; every call of the first group
\* has settled and a call of the second group is in flight
C19_Witness ==
    /\ run.pc = "running"
    /\ Len(run.urls) > BATCH
    /\ run.i = BATCH
    /\ \A j \in 1..BATCH : run.results[j] \in Handles \cup {Null}
    /\ \E j \in (BATCH + 1)..Len(run.urls) : run.results[j] = Pending
    /\ OwnInFlight # {}

FavKeys == {Normalize(favorites[j]) : j \in 1..Len(favorites)}
FixedPoint == FavKeys \subseteq DOMAIN db /\ FavKeys \subseteq DOMAIN MEMORY_CACHE

\* C20 (SpecRefresh).  Preload reaches a fixed point.  From empty tiers, over
\* distinct cacheable favourites that fit within maxCacheEntries, all
\* retrievals succeeding: no record is ever selected for eviction or removed,
\* and no handle is revoked; when a run of preloadAllFavorites has ended every
\* favourite has a record in the store and an entry in the Memory Index; and
\* from then on no step changes the store or the Memory Index or leaves a
\* cacheGif call suspended (so no retrieval is made), each call of a later run
\* returning the handle the Memory Index holds.
C20_PreloadFixedPoint ==
    /\ [](\A s \in Slots : tasks[s].pc # "dbDelete")
    /\ [][DOMAIN db \subseteq DOMAIN db' /\ live \subseteq live']_vars
    /\ [](PreloadDone => FixedPoint /\ DOMAIN db = FavKeys)
    /\ [](FixedPoint => AllIdle)
    /\ [][FixedPoint =>
            /\ UNCHANGED <<db, MEMORY_CACHE, REVERSE_CACHE, live, tasks>>
            /\ \A j \in CalledOnStep :
                  /\ run'.results[j] = MEMORY_CACHE[Normalize(run'.urls[j])]
                  /\ run'.fetched[j] = "none"]_vars

\* C20 witness: a run of preloadAllFavorites over several favourites has ended
\* having made no retrieval, every call having returned the handle of the
\* Memory Index, with as many records as favourites
C20_Witness ==
    /\ PreloadDone
    /\ Len(run.urls) > BATCH
    /\ Len(run.urls) = maxCacheEntries
    /\ \A j \in Positions :
          /\ run.calls[j] = 1
          /\ run.fetched[j] = "none"
          /\ run.results[j] = MEMORY_CACHE[Normalize(run.urls[j])]
    /\ Cardinality(DOMAIN db) = Len(run.urls)

\* C21 as claimed (SpecLife).  No new work after stop.  On a step taken while
\* the plugin is stopped no cacheGif call is made by an interval timer, by the
\* startup timeout of an earlier start(), or by a favourite-added or
\* bulk-change handler of an earlier start().
C21_NoWorkAfterStop ==
    [][~started =>
          /\ \A t \in timers : ~(TimerFires(t) /\ CalledOnStep # {})
          /\ ~(StartupTimeoutFires /\ CalledOnStep # {})
          /\ \A src \in Inputs : ~OnFavAdded(src)
          /\ ~(OnProtoUpdate /\ Activated # {})]_vars
====
